---- MODULE Spec2Model ----
(***************************************************************************)
(* Autonomous Email Engine (backend/services/autonomous-email-engine.js).  *)
(*                                                                         *)
(* State: the outreach_campaigns, email_blocklist and email_conversations  *)
(* tables, the engine's stats, the clock, and the position and locals of   *)
(* each run of processFollowUpQueue (an async function that yields at      *)
(* every await, so the webhook and reply handlers interleave with it),     *)
(* and the position and locals of each open or click request between its   *)
(* read of the campaign and its updateCampaign.                            *)
(*                                                                         *)
(* Time is an integer number of clock units, UnitsPerHour units per hour;  *)
(* the code's (now - t) / (1000*60*60) >= h is the comparison              *)
(* now - t >= h * UnitsPerHour on these units.  The updated_at column      *)
(* that updateCampaign stamps on every write is read by no engine code     *)
(* and is left out.                                                        *)
(***************************************************************************)
EXTENDS Integers, Sequences, FiniteSets, TLC

(* ------------------------------ bounds -------------------------------- *)
UnitsPerHour == 2
MaxPeriods == 2
MaxEvents == 1
MaxDispatch == 4
MaxFaults == 1
MaxDueHours == 74
MaxTracks == 3
MaxSigLen == 3
MaxUrls == 2
MaxTextLen == 3
MaxRows == 4
MaxStarts == 2

NULL == -1
Hour == UnitsPerHour
Period == 72 * Hour
MaxTime == MaxPeriods * Period
MaxDueTime == MaxDueHours * Hour

Campaigns == {1, 2}
SweepIds == {1, 2}
SingleRun == {1}
Requests == 1..MaxTracks
StoredEmails == {"a@x.com", "b@x.com"}
RawEmails == {"a@x.com", "A@x.com", "b@x.com"}
Links == {"https://calendly.com/maggieforbes/discovery", "https://example.com/page"}

(* String.prototype.toLowerCase on the addresses of RawEmails. *)
toLowerCase(e) == IF e = "A@x.com" THEN "a@x.com" ELSE e

(* link.includes('calendly') on the links of Links. *)
includesCalendly(link) == link = "https://calendly.com/maggieforbes/discovery"

(* this.defaultSequence; JavaScript index i is index i + 1 here. *)
defaultSequence ==
    << [delay |-> 72,  type |-> "follow_up_1"],
       [delay |-> 168, type |-> "follow_up_2"],
       [delay |-> 336, type |-> "follow_up_final"] >>

FollowUpTypes == {"follow_up_1", "follow_up_2", "follow_up_final"}
MessageTypes == FollowUpTypes \cup {"reply_response", "booking_invitation"}

KnownActions == {"send_response_and_monitor", "send_response_and_nurture",
                 "send_calendar_link", "mark_closed", "remove_from_list",
                 "wait_and_retry", "flag_for_human_review"}
ClassifierActions == KnownActions \cup {"escalate_to_sales"}

VARIABLES
    now,            \* the wall clock, in units
    campaigns,      \* outreach_campaigns: id -> row
    blocklist,      \* email_blocklist: email -> reason ("none" = no row)
    conversations,  \* email_conversations: <<campaign, message_type>> -> rows
    stats,          \* this.stats
    providerCalls,  \* resend.emails.send calls made: <<campaign, type>> -> n
    pendingSent,    \* email.sent events the provider still owes, per address
    nEvents,        \* recipient-driven events delivered so far
    nFaults,        \* provider, storage and classifier failures so far
    lastReply,      \* the last processIncomingReply: its number, sender, result
    lastEvent,      \* the last recipient-driven event handled (see nEvents)
    sw_pc,          \* position of each run of processFollowUpQueue
    sw_queue,       \* rows of that run's query not yet iterated
    sw_cur,         \* the row the run is sending to (as queried), or NoRow
    sw_count,       \* the run's local followUpsSent
    sw_result,      \* what sendEmail returned for sw_cur ("none" before it)
    sw_flagged,     \* history: campaigns with a terminal timestamp at the query
    sw_failed,      \* history: campaigns a call of this run failed for
    sw_advanced,    \* history: campaigns whose advance this run persisted now
    sw_prev,        \* history: quiet as it was at the run's query
    quiet,          \* history: advanced by completed runs, nothing since
    bounceHandled,  \* history: addresses whose email.bounced was handled
    track,          \* the open and click requests: request -> position, locals
    engagement,     \* email_engagement: <<campaign, event_type>> -> rows
    webhookSecret,  \* whether this.webhookSecret is set
    running,        \* this.running
    starting,       \* the run start() is awaiting before its setInterval, or 0
    timers,         \* the intervals set and not cleared
    followUpInterval, \* this.followUpInterval: the last interval set, or 0
    call            \* the last call of a function that only computes

vars == << now, campaigns, blocklist, conversations, stats, providerCalls,
           pendingSent, nEvents, nFaults, lastReply, lastEvent, sw_pc, sw_queue,
           sw_cur, sw_count, sw_result, sw_flagged, sw_failed, sw_advanced,
           sw_prev, quiet, bounceHandled, track, engagement, webhookSecret,
           running, starting, timers, followUpInterval, call >>

tables == << campaigns, blocklist, conversations >>
sweepLocals == << sw_pc, sw_queue, sw_cur, sw_count, sw_result, sw_flagged,
                 sw_failed >>
lifecycle == << webhookSecret, running, starting, timers, followUpInterval >>

NoRow == [id |-> 0]

(* An open or click request that has not arrived, and one that returned. *)
IdleRequest == [pc |-> "idle", op |-> "none", id |-> 0, link |-> "",
                count |-> 0, stamp |-> NULL]
DoneRequest == [IdleRequest EXCEPT !.pc = "done"]

(* No recipient-driven event has been handled yet. *)
NoEvent == [type |-> "none", to |-> "none", detail |-> ""]

(* An email.bounced event without bounce.message (or with an empty one). *)
NoMessage == ""
BounceMessages == {"mailbox full", NoMessage}

(* No inbound reply has been processed yet. *)
NoReply == [n |-> 0, from |-> "none", outcome |-> "none", action |-> "none",
            classifier |-> "not_called"]

NewCampaign(email) ==
    [ recipient_email |-> email, created_at |-> 0, status |-> "draft",
      resend_email_id |-> NULL, sent_at |-> NULL,
      last_followup_at |-> NULL, followup_count |-> 0,
      replied_at |-> NULL, last_reply_text |-> "",
      bounced_at |-> NULL, bounce_reason |-> "",
      unsubscribed_at |-> NULL, unsubscribe_reason |-> "",
      delivered_at |-> NULL, opened_at |-> NULL, open_count |-> 0,
      clicked_at |-> NULL, click_count |-> 0, calendly_clicked_at |-> NULL,
      booking_email_sent_at |-> NULL, retry_scheduled_at |-> NULL,
      needs_review |-> FALSE ]

(* The campaigns the outreach component has created, oldest first: the    *)
(* recipient of campaign i is cfg[i].                                      *)
Configs == { <<"a@x.com">>, <<"a@x.com", "a@x.com">> }

(* The event_type values the engine's logEngagement calls write. *)
EngagementTypes == {"open", "click", "delivery_delayed"}

(* No function that only computes has been called yet. *)
NoCall == [fn |-> "none", done |-> FALSE]

ZeroLog == [k \in Campaigns \X MessageTypes |-> 0]

(* No row in email_blocklist. *)
NoBlocks == [e \in StoredEmails |-> "none"]

InitStore(rows, pending, blocked) ==
    /\ now = 0
    /\ campaigns = rows
    /\ blocklist = blocked
    /\ conversations = ZeroLog
    /\ stats = [emailsSent |-> 0, repliesProcessed |-> 0,
                bookingsTriggered |-> 0, followUpsSent |-> 0]
    /\ providerCalls = ZeroLog
    /\ pendingSent = pending
    /\ nEvents = 0
    /\ nFaults = 0
    /\ lastReply = NoReply
    /\ lastEvent = NoEvent
    /\ sw_pc = [s \in SweepIds |-> "idle"]
    /\ sw_queue = [s \in SweepIds |-> {}]
    /\ sw_cur = [s \in SweepIds |-> NoRow]
    /\ sw_count = [s \in SweepIds |-> 0]
    /\ sw_result = [s \in SweepIds |-> "none"]
    /\ sw_flagged = [s \in SweepIds |-> {}]
    /\ sw_failed = [s \in SweepIds |-> {}]
    /\ sw_advanced = [s \in SweepIds |-> {}]
    /\ sw_prev = [s \in SweepIds |-> {}]
    /\ quiet = {}
    /\ bounceHandled = {}
    /\ track = [r \in Requests |-> IdleRequest]
    /\ engagement = [k \in Campaigns \X EngagementTypes |-> 0]

InitWith(rows, pending) == InitStore(rows, pending, NoBlocks)

(* A campaign has had its first email.sent handled (at time 0) when a     *)
(* newer campaign for the same recipient exists; the newest campaign of a  *)
(* recipient is a draft whose email.sent event the provider still owes.    *)
Superseded(cfg, c) == \E d \in (c + 1)..Len(cfg) : cfg[d] = cfg[c]

InitialCampaigns(cfg) ==
    [c \in 1..Len(cfg) |->
        IF Superseded(cfg, c)
        THEN [NewCampaign(cfg[c]) EXCEPT !.status = "sent", !.sent_at = 0,
                                         !.resend_email_id = 1]
        ELSE NewCampaign(cfg[c])]

InitialPending(cfg) ==
    [e \in StoredEmails |-> IF \E c \in 1..Len(cfg) : cfg[c] = e THEN 1 ELSE 0]

(* The constructor's own fields: the webhook secret as the environment    *)
(* gives it, the engine not running, no interval set; c is the call made   *)
(* of a function that only computes, if one is.                            *)
Constructed(secret, c) ==
    /\ call = c
    /\ webhookSecret = secret
    /\ running = FALSE
    /\ starting = 0
    /\ timers = {}
    /\ followUpInterval = 0

(* The state after the constructor, RESEND_WEBHOOK_SECRET set as the setup *)
(* document tells the operator to.                                         *)
Init ==
    \E cfg \in Configs :
       InitWith(InitialCampaigns(cfg), InitialPending(cfg)) /\ Constructed(TRUE, NoCall)

(* A store in which a@x.com complained about its first campaign before its *)
(* second one was created: handleEmailComplained has marked the campaign   *)
(* and addToUnsubscribeList has written the address's row.                 *)
EarlierBlocks == [NoBlocks EXCEPT !["a@x.com"] = "unsubscribe"]

ComplainedCampaigns ==
    [InitialCampaigns(<<"a@x.com", "a@x.com">>) EXCEPT
        ![1].status = "unsubscribed", ![1].unsubscribed_at = 0,
        ![1].unsubscribe_reason = "spam_complaint"]

InitBlocklist ==
    \/ Init
    \/ /\ InitStore(ComplainedCampaigns,
                    InitialPending(<<"a@x.com", "a@x.com">>), EarlierBlocks)
       /\ Constructed(TRUE, NoCall)

(* One campaign, for the hour-by-hour run of the due check. *)
InitDue ==
    /\ InitWith(InitialCampaigns(<<"a@x.com">>), InitialPending(<<"a@x.com">>))
    /\ Constructed(TRUE, NoCall)

(* ------------------------------ helpers ------------------------------- *)

(* supabase .update({...updates}).eq('id', id): the row with the given     *)
(* columns overwritten.                                                    *)
Merge(row, updates) ==
    [f \in DOMAIN row |-> IF f \in DOMAIN updates THEN updates[f] ELSE row[f]]

updateCampaign(id, updates) ==
    [campaigns EXCEPT ![id] = Merge(@, updates)]

(* The mutant of findCampaignByEmail: the .eq('recipient_email', ...)       *)
(* filter dropped, so the most recently created campaign is returned.      *)
findCampaignByEmail_m(email) ==
    IF DOMAIN campaigns = {} THEN 0
    ELSE CHOOSE c \in DOMAIN campaigns : \A d \in DOMAIN campaigns : d <= c

(* The mutant of findCampaignByEmail: ordered by created_at ascending, so  *)
(* the oldest campaign of the address is returned.                         *)
findCampaignByEmail_asc(email) ==
    LET matches == {c \in DOMAIN campaigns :
                       campaigns[c].recipient_email = toLowerCase(email)}
    IN IF matches = {} THEN 0
       ELSE CHOOSE c \in matches : \A d \in matches : c <= d

(* findCampaignByEmail: the most recently created campaign whose           *)
(* recipient_email is the lower-cased address, or 0 (null) when none.      *)
findCampaignByEmail(email) ==
    LET matches == {c \in DOMAIN campaigns :
                       campaigns[c].recipient_email = toLowerCase(email)}
    IN IF matches = {} THEN 0
       ELSE CHOOSE c \in matches : \A d \in matches : d <= c

(* The mutant of isEmailBlocked: only rows with reason 'bounce' count. *)
isEmailBlocked_m(email) == blocklist[toLowerCase(email)] = "bounce"

isEmailBlocked(email) == blocklist[toLowerCase(email)] # "none"

(* The mutant of addToBounceList: an insert that leaves an existing row of *)
(* the address as it is.                                                   *)
addToBounceList_keep(email) ==
    IF blocklist[toLowerCase(email)] # "none" THEN blocklist
    ELSE [blocklist EXCEPT ![toLowerCase(email)] = "bounce"]

(* The mutant of addToBounceList: the address stored as received. *)
addToBounceList_m(email) ==
    [e \in DOMAIN blocklist |-> IF e = email THEN "bounce" ELSE blocklist[e]]

addToBounceList(email) ==
    [blocklist EXCEPT ![toLowerCase(email)] = "bounce"]

(* The mutant of addToUnsubscribeList: the caller's reason argument (the   *)
(* details column) stored as the row's reason.                             *)
addToUnsubscribeList_m(email) ==
    [blocklist EXCEPT ![toLowerCase(email)] = "requested"]

addToUnsubscribeList(email) ==
    [blocklist EXCEPT ![toLowerCase(email)] = "unsubscribe"]

getCurrentSequenceStep(status) ==
    CASE status = "sent" -> 0
      [] status = "follow_up_1" -> 1
      [] status = "follow_up_2" -> 2
      [] OTHER -> 3

HasNextStep(status) == getCurrentSequenceStep(status) < Len(defaultSequence)

NextStep(status) == defaultSequence[getCurrentSequenceStep(status) + 1]

(* The mutant of hoursNeeded: the step's own delay subtracted. *)
hoursNeeded_m(status) ==
    LET currentStep == getCurrentSequenceStep(status)
    IN IF currentStep = 0
       THEN defaultSequence[1].delay
       ELSE defaultSequence[currentStep + 1].delay - defaultSequence[currentStep + 1].delay

hoursNeeded(status) ==
    LET currentStep == getCurrentSequenceStep(status)
    IN IF currentStep = 0
       THEN defaultSequence[1].delay
       ELSE defaultSequence[currentStep + 1].delay - defaultSequence[currentStep].delay

lastTouch(row) ==
    LET sentAt == IF row.sent_at # NULL THEN row.sent_at ELSE row.created_at
    IN IF row.last_followup_at # NULL THEN row.last_followup_at ELSE sentAt

(* The mutant of shouldSendFollowUp: a strict comparison. *)
shouldSendFollowUp_m(row, t) ==
    /\ HasNextStep(row.status)
    /\ t - lastTouch(row) > hoursNeeded(row.status) * Hour

shouldSendFollowUp(row, t) ==
    /\ HasNextStep(row.status)
    /\ t - lastTouch(row) >= hoursNeeded(row.status) * Hour

Bump(log, id, type) == [log EXCEPT ![<<id, type>>] = @ + 1]

(* logEngagement: one more email_engagement row; "none" is no call. *)
logEngagement(id, type) ==
    IF type = "none" THEN engagement
    ELSE [engagement EXCEPT ![<<id, type>>] = @ + 1]

(* Whether a provider, storage or classifier call may still fail. *)
Outcomes == IF nFaults < MaxFaults THEN {TRUE, FALSE} ELSE {TRUE}

Fault(ok) == nFaults' = IF ok THEN nFaults ELSE nFaults + 1

(* sendEmail's result for the address: 'blocked' before any provider call, *)
(* else what resend.emails.send gave.                                      *)
sendEmailResult(to, ok) ==
    IF isEmailBlocked(to) THEN "blocked" ELSE IF ok THEN "sent" ELSE "error"

(* ------------------------------- clock -------------------------------- *)

Advance(d, limit) ==
    /\ now + d <= limit
    /\ now' = now + d
    /\ quiet' = {}
    /\ sw_prev' = [s \in SweepIds |-> {}]
    /\ sw_advanced' = [s \in SweepIds |-> {}]
    /\ UNCHANGED << tables, stats, providerCalls, pendingSent, nEvents,
                    nFaults, lastReply, lastEvent, sweepLocals,
                    bounceHandled, track,
                    engagement, lifecycle, call >>

TickPeriod == Advance(Period, MaxTime)

TickUnit == Advance(1, MaxDueTime)

(* -------------------------- provider webhooks ------------------------- *)

(* What a handler leaves alone of the runs of processFollowUpQueue. *)
EventFrame ==
    /\ quiet' = {}
    /\ sw_prev' = [s \in SweepIds |-> {}]
    /\ UNCHANGED << now, sweepLocals, sw_advanced >>

Budget == /\ nEvents < MaxEvents
          /\ nEvents' = nEvents + 1

Record(type, to, detail) ==
    lastEvent' = [type |-> type, to |-> to, detail |-> detail]

(* bounce?.message || 'Unknown' *)
bounceReason(message) == IF message = NoMessage THEN "Unknown" ELSE message

(* The provider reports each email it accepted once. *)
handleEmailSent(to) ==
    /\ pendingSent[toLowerCase(to)] > 0
    /\ pendingSent' = [pendingSent EXCEPT ![toLowerCase(to)] = @ - 1]
    /\ LET id == findCampaignByEmail(to)
       IN campaigns' = IF id # 0
                       THEN updateCampaign(id, [resend_email_id |-> 1,
                                                sent_at |-> now,
                                                status |-> "sent"])
                       ELSE campaigns
    /\ EventFrame
    /\ UNCHANGED << blocklist, conversations, stats, providerCalls, nEvents,
                    nFaults, lastReply, lastEvent, bounceHandled, track,
                    engagement, lifecycle, call >>

handleEmailBounced(to, message) ==
    /\ Budget
    /\ Record("email.bounced", to, message)
    /\ LET id == findCampaignByEmail(to)
       IN IF id # 0
          THEN /\ campaigns' = updateCampaign(id, [status |-> "bounced",
                                                   bounced_at |-> now,
                                                   bounce_reason |-> bounceReason(message)])
               /\ blocklist' = addToBounceList(to)
          ELSE UNCHANGED << campaigns, blocklist >>
    /\ bounceHandled' = bounceHandled \cup {toLowerCase(to)}
    /\ EventFrame
    /\ UNCHANGED << conversations, stats, providerCalls, pendingSent, nFaults,
                    lastReply, track,
                    engagement, lifecycle, call >>

handleEmailComplained(to) ==
    /\ Budget
    /\ Record("email.complained", to, "")
    /\ LET id == findCampaignByEmail(to)
       IN campaigns' = IF id # 0
                       THEN updateCampaign(id, [status |-> "unsubscribed",
                                                unsubscribed_at |-> now,
                                                unsubscribe_reason |-> "spam_complaint"])
                       ELSE campaigns
    /\ blocklist' = addToUnsubscribeList(to)
    /\ EventFrame
    /\ UNCHANGED << conversations, stats, providerCalls, pendingSent, nFaults,
                    lastReply, bounceHandled, track,
                    engagement, lifecycle, call >>

handleEmailClicked(to, link) ==
    /\ Budget
    /\ Record("email.clicked", to, link)
    /\ LET id == findCampaignByEmail(to)
       IN /\ campaigns' =
             IF id = 0 THEN campaigns
             ELSE LET first == [clicked_at |-> now,
                                click_count |-> campaigns[id].click_count + 1]
                      hot == [status |-> "booking", calendly_clicked_at |-> now]
                  IN [campaigns EXCEPT ![id] =
                        IF includesCalendly(link)
                        THEN Merge(Merge(@, first), hot)
                        ELSE Merge(@, first)]
          /\ engagement' = IF id = 0 THEN engagement ELSE logEngagement(id, "click")
    /\ EventFrame
    /\ UNCHANGED << blocklist, conversations, stats, providerCalls,
                    pendingSent, nFaults, lastReply, bounceHandled, track,
                    lifecycle, call >>

(* -------------------- calls of functions that compute ----------------- *)

(* A call that has been made with the arguments and has not returned. *)
Call(fn, args) == [fn |-> fn, args |-> args, done |-> FALSE]

Called(fn) == call.fn = fn /\ ~call.done

(* The call returns the value; a function that only computes leaves the    *)
(* tables and the engine as they are.                                      *)
Returns(value) ==
    /\ call' = [fn |-> call.fn, args |-> call.args, done |-> TRUE,
                returned |-> value]
    /\ UNCHANGED << now, tables, stats, providerCalls, pendingSent, nEvents,
                    nFaults, lastReply, lastEvent, sweepLocals, sw_advanced,
                    sw_prev, quiet, bounceHandled, track, engagement,
                    lifecycle >>

Returned(fn) == call.fn = fn /\ call.done

(* ------------------------ verifyWebhookSignature ---------------------- *)

(* Signatures are strings of hex digits; the hex digest of the HMAC has    *)
(* DigestLen of them (64 for SHA-256, two here), and the signature header  *)
(* is whatever string the sender put there.                                *)
HexDigits == {"a", "b"}
DigestLen == 2
Signatures == UNION {[1..n -> HexDigits] : n \in 0..MaxSigLen}
Payloads == {"sent a@x.com", "bounced a@x.com"}

(* crypto.createHmac('sha256', secret).update(payload).digest('hex') *)
hmacDigest(payload) ==
    IF payload = "sent a@x.com" THEN <<"a", "b">> ELSE <<"b", "b">>

(* crypto.timingSafeEqual(a, b): a RangeError for buffers of different     *)
(* byte lengths, else whether they are equal.                              *)
timingSafeEqual(a, b) ==
    IF Len(a) # Len(b) THEN "throws"
    ELSE IF a = b THEN "true" ELSE "false"

verifyWebhookSignature(payload, signature) ==
    IF ~webhookSecret THEN "true"
    ELSE timingSafeEqual(signature, hmacDigest(payload))

(* The call returns. *)
verifyWebhookSignatureCall ==
    /\ Called("verifyWebhookSignature")
    /\ Returns(verifyWebhookSignature(call.args[1], call.args[2]))

(* ---------------------------- processWebhook -------------------------- *)

(* The cases of processWebhook's switch, and a type it has no case for. *)
WebhookTypes == {"email.sent", "email.delivered", "email.opened",
                 "email.clicked", "email.bounced", "email.complained",
                 "email.delivery_delayed"}
EventTypes == WebhookTypes \cup {"contact.created"}

(* What the event carries besides its recipient: the link of a click, the  *)
(* bounce message of a bounce.                                             *)
Details(type) ==
    CASE type = "email.clicked" -> Links
      [] type = "email.bounced" -> BounceMessages
      [] OTHER -> {""}

NoUpdates == << >>

(* The columns the handler of the type hands to updateCampaign for the     *)
(* campaign it found; handleDeliveryDelayed and the default branch make no *)
(* updateCampaign call.                                                    *)
webhookUpdates(type, row, detail) ==
    CASE type = "email.sent" ->
            [resend_email_id |-> 1, sent_at |-> now, status |-> "sent"]
      [] type = "email.delivered" -> [delivered_at |-> now]
      [] type = "email.opened" ->
            IF row.opened_at = NULL
            THEN [opened_at |-> now, open_count |-> row.open_count + 1]
            ELSE [open_count |-> row.open_count + 1]
      [] type = "email.clicked" ->
            IF includesCalendly(detail)
            THEN [clicked_at |-> now, click_count |-> row.click_count + 1,
                  status |-> "booking", calendly_clicked_at |-> now]
            ELSE [clicked_at |-> now, click_count |-> row.click_count + 1]
      [] type = "email.bounced" ->
            [status |-> "bounced", bounced_at |-> now,
             bounce_reason |-> bounceReason(detail)]
      [] type = "email.complained" ->
            [status |-> "unsubscribed", unsubscribed_at |-> now,
             unsubscribe_reason |-> "spam_complaint"]
      [] OTHER -> NoUpdates

(* The mutant of webhookEngagement: a delayed delivery is not logged. *)
webhookEngagement_m(type, row) ==
    CASE type = "email.opened" -> IF row.opened_at = NULL THEN "open" ELSE "none"
      [] type = "email.clicked" -> "click"
      [] OTHER -> "none"

(* The event_type the handler of the type hands to logEngagement for the   *)
(* campaign it found, "none" where it makes no call.                       *)
webhookEngagement(type, row) ==
    CASE type = "email.opened" -> IF row.opened_at = NULL THEN "open" ELSE "none"
      [] type = "email.clicked" -> "click"
      [] type = "email.delivery_delayed" -> "delivery_delayed"
      [] OTHER -> "none"

(* The blocklist after the handler of the type: handleEmailBounced adds    *)
(* the address when it found a campaign, handleEmailComplained always.     *)
webhookBlocklist(type, id, to) ==
    CASE type = "email.bounced" /\ id # 0 -> addToBounceList(to)
      [] type = "email.complained" -> addToUnsubscribeList(to)
      [] OTHER -> blocklist

(* What processWebhook gives its caller: no handler raises what storage    *)
(* returned to it (updateCampaign logs the error it destructures, the      *)
(* inserts are not looked at), so the catch never runs.                    *)
processWebhookReturn(stored) == "processed"

(* processWebhook(event) with event.type and event.data.to: the handler of *)
(* the type, whole; ok is whether its updateCampaign calls persisted.      *)
processWebhook(type, to, detail) ==
    /\ Budget
    /\ Record(type, to, detail)
    /\ type = "email.sent" => pendingSent[toLowerCase(to)] > 0
    /\ pendingSent' = IF type = "email.sent"
                      THEN [pendingSent EXCEPT ![toLowerCase(to)] = @ - 1]
                      ELSE pendingSent
    /\ LET id == IF type \in WebhookTypes THEN findCampaignByEmail(to) ELSE 0
           updates == IF id = 0 THEN NoUpdates
                      ELSE webhookUpdates(type, campaigns[id], detail)
       IN \E ok \in Outcomes :
             /\ (updates = NoUpdates => ok)
             /\ campaigns' = IF updates # NoUpdates /\ ok
                             THEN updateCampaign(id, updates) ELSE campaigns
             /\ engagement' = IF id = 0 THEN engagement
                              ELSE logEngagement(id, webhookEngagement(type, campaigns[id]))
             /\ blocklist' = webhookBlocklist(type, id, to)
             /\ Fault(ok)
             /\ call' = [fn |-> "processWebhook", type |-> type, id |-> id,
                         done |-> TRUE, stored |-> ok,
                         returned |-> processWebhookReturn(ok)]
    /\ bounceHandled' = IF type = "email.bounced"
                        THEN bounceHandled \cup {toLowerCase(to)} ELSE bounceHandled
    /\ EventFrame
    /\ UNCHANGED << conversations, stats, providerCalls, lastReply, track,
                    lifecycle >>

(* ---------------------------- inbound replies ------------------------- *)

(* The columns conversationHandler.handleReply writes before it returns    *)
(* the action: a closed lead is marked closed_lost there.                  *)
handleReply(row, action) ==
    IF action = "mark_closed" THEN Merge(row, [status |-> "closed_lost"]) ELSE row

(* The mutant of handleClassifiedReply: scheduleRetry called with 24. *)
handleClassifiedReply_m(row, action) ==
    CASE action = "send_calendar_link" ->
            Merge(row, [status |-> "booking_sent", booking_email_sent_at |-> now])
      [] action = "wait_and_retry" ->
            Merge(row, [retry_scheduled_at |-> now + 24 * Hour,
                        status |-> "retry_scheduled"])
      [] action = "flag_for_human_review" ->
            Merge(row, [needs_review |-> TRUE])
      [] OTHER -> row

(* handleClassifiedReply's writes to the campaign row: sendBookingEmail,   *)
(* scheduleRetry, flagForReview; the switch has no default branch.         *)
handleClassifiedReply(row, action) ==
    CASE action = "send_calendar_link" ->
            Merge(row, [status |-> "booking_sent", booking_email_sent_at |-> now])
      [] action = "wait_and_retry" ->
            Merge(row, [retry_scheduled_at |-> now + 72 * Hour,
                        status |-> "retry_scheduled"])
      [] action = "flag_for_human_review" ->
            Merge(row, [needs_review |-> TRUE])
      [] OTHER -> row

(* The message handleClassifiedReply sends for the action, or "none". *)
classifiedSend(action, hasResponse) ==
    CASE action \in {"send_response_and_monitor", "send_response_and_nurture"} ->
            IF hasResponse THEN "reply_response" ELSE "none"
      [] action = "send_calendar_link" -> "booking_invitation"
      [] OTHER -> "none"

(* The outcome processIncomingReply gives once the classifier returned:    *)
(* every path through handleClassifiedReply returns normally.              *)
replyOutcome(action) == "processed"

(* The mutant of repliedUpdate: the status left out of the update. *)
repliedUpdate_m(row) ==
    Merge(row, [replied_at |-> now, last_reply_text |-> "cleaned"])

(* processIncomingReply's updateCampaign before the classifier is called. *)
repliedUpdate(row) ==
    Merge(row, [replied_at |-> now, status |-> "replied",
                last_reply_text |-> "cleaned"])

processIncomingReply(from, action, hasResponse) ==
    /\ Budget
    /\ Record("reply", from, "")
    /\ LET id == findCampaignByEmail(from)
       IN IF id = 0
          THEN /\ lastReply' = [n |-> lastReply.n + 1, from |-> from,
                                outcome |-> "no_campaign_found",
                                action |-> "none", classifier |-> "not_called"]
               /\ UNCHANGED << tables, stats, providerCalls, pendingSent,
                               nFaults >>
          ELSE \E classified \in Outcomes, ok \in Outcomes :
               LET replied == repliedUpdate(campaigns[id])
                   to == campaigns[id].recipient_email
                   type == classifiedSend(action, hasResponse)
                   res == IF type = "none" THEN "none" ELSE sendEmailResult(to, ok)
               IN IF ~classified
                  THEN /\ ok
                       /\ campaigns' = [campaigns EXCEPT ![id] = replied]
                       /\ lastReply' = [n |-> lastReply.n + 1, from |-> from,
                                        outcome |-> "error", action |-> "none",
                                        classifier |-> "failed"]
                       /\ nFaults' = nFaults + 1
                       /\ UNCHANGED << blocklist, conversations, stats,
                                       providerCalls, pendingSent >>
                  ELSE /\ (res \in {"none", "blocked"} => ok)
                       /\ campaigns' = [campaigns EXCEPT ![id] =
                             handleClassifiedReply(handleReply(replied, action), action)]
                       /\ blocklist' = IF action = "remove_from_list"
                                       THEN addToUnsubscribeList(to) ELSE blocklist
                       /\ providerCalls' = IF res \in {"sent", "error"}
                                           THEN Bump(providerCalls, id, type)
                                           ELSE providerCalls
                       /\ pendingSent' = IF res = "sent"
                                         THEN [pendingSent EXCEPT ![to] = @ + 1]
                                         ELSE pendingSent
                       /\ conversations' = IF type = "reply_response"
                                           THEN Bump(conversations, id, type)
                                           ELSE conversations
                       /\ stats' = [stats EXCEPT
                              !.repliesProcessed = @ + 1,
                              !.emailsSent = IF res = "sent" THEN @ + 1 ELSE @,
                              !.bookingsTriggered =
                                  IF action = "send_calendar_link" THEN @ + 1 ELSE @]
                       /\ Fault(ok)
                       /\ lastReply' = [n |-> lastReply.n + 1, from |-> from,
                                        outcome |-> replyOutcome(action),
                                        action |-> action,
                                        classifier |-> "returned"]
    /\ EventFrame
    /\ UNCHANGED << bounceHandled, track,
                    engagement, lifecycle, call >>

(* ------------------------ processFollowUpQueue ------------------------ *)

HasTerminalTimestamp(row) ==
    \/ row.replied_at # NULL
    \/ row.bounced_at # NULL
    \/ row.unsubscribed_at # NULL

(* The mutant of FollowUpQuery: the three .is(..., null) filters dropped. *)
FollowUpQuery_m ==
    {c \in DOMAIN campaigns :
        campaigns[c].status \in {"sent", "follow_up_1", "follow_up_2"}}

(* .in('status', [...]).is('replied_at', null).is('bounced_at', null)      *)
(* .is('unsubscribed_at', null)                                            *)
FollowUpQuery ==
    {c \in DOMAIN campaigns :
        /\ campaigns[c].status \in {"sent", "follow_up_1", "follow_up_2"}
        /\ campaigns[c].replied_at = NULL
        /\ campaigns[c].bounced_at = NULL
        /\ campaigns[c].unsubscribed_at = NULL}

(* The select: the run keeps the rows as they were at this moment. *)
followUpSelect(s) ==
    /\ sw_pc[s] = "idle"
    /\ sw_pc' = [sw_pc EXCEPT ![s] = "loop"]
    /\ sw_queue' = [sw_queue EXCEPT ![s] =
                      {[id |-> c, row |-> campaigns[c]] : c \in FollowUpQuery}]
    /\ sw_count' = [sw_count EXCEPT ![s] = 0]
    /\ sw_flagged' = [sw_flagged EXCEPT ![s] =
                        {c \in DOMAIN campaigns : HasTerminalTimestamp(campaigns[c])}]
    /\ sw_failed' = [sw_failed EXCEPT ![s] = {}]
    /\ sw_advanced' = [sw_advanced EXCEPT ![s] = {}]
    /\ sw_prev' = [sw_prev EXCEPT ![s] = quiet]
    /\ UNCHANGED << now, tables, stats, providerCalls, pendingSent, nEvents,
                    nFaults, lastReply, lastEvent, sw_cur, sw_result, quiet,
                    bounceHandled, track, engagement, call >>

(* processFollowUpQueue called by itself (the control surface's sweep). *)
SweepQuery(s) == followUpSelect(s) /\ UNCHANGED lifecycle

(* One iteration whose shouldSendFollowUp is false. *)
SweepSkip(s) ==
    /\ sw_pc[s] = "loop"
    /\ \E r \in sw_queue[s] :
          /\ ~shouldSendFollowUp(r.row, now)
          /\ sw_queue' = [sw_queue EXCEPT ![s] = @ \ {r}]
    /\ UNCHANGED << now, tables, stats, providerCalls, pendingSent, nEvents,
                    nFaults, lastReply, lastEvent, sw_pc, sw_cur, sw_count,
                    sw_result, sw_flagged, sw_failed, sw_advanced, sw_prev,
                    quiet, bounceHandled, track,
                    engagement, lifecycle, call >>

(* One iteration whose shouldSendFollowUp is true: sendNextFollowUp up to  *)
(* sendEmail's await of isEmailBlocked.                                    *)
SweepPick(s) ==
    /\ sw_pc[s] = "loop"
    /\ \E r \in sw_queue[s] :
          /\ shouldSendFollowUp(r.row, now)
          /\ HasNextStep(r.row.status)
          /\ sw_queue' = [sw_queue EXCEPT ![s] = @ \ {r}]
          /\ sw_cur' = [sw_cur EXCEPT ![s] = r]
    /\ sw_pc' = [sw_pc EXCEPT ![s] = "blockcheck"]
    /\ UNCHANGED << now, tables, stats, providerCalls, pendingSent, nEvents,
                    nFaults, lastReply, lastEvent, sw_count, sw_result,
                    sw_flagged, sw_failed, sw_advanced, sw_prev, quiet,
                    bounceHandled, track,
                    engagement, lifecycle, call >>

(* sendEmail: the blocklist lookup; 'blocked' returns without a provider   *)
(* call, and sendNextFollowUp goes on to its updateCampaign either way.    *)
SweepBlockCheck(s) ==
    /\ sw_pc[s] = "blockcheck"
    /\ LET blocked == isEmailBlocked(sw_cur[s].row.recipient_email)
       IN /\ sw_pc' = [sw_pc EXCEPT ![s] = IF blocked THEN "update" ELSE "provider"]
          /\ sw_result' = [sw_result EXCEPT ![s] = IF blocked THEN "blocked" ELSE "none"]
    /\ UNCHANGED << now, tables, stats, providerCalls, pendingSent, nEvents,
                    nFaults, lastReply, lastEvent, sw_queue, sw_cur,
                    sw_count, sw_flagged, sw_failed, sw_advanced, sw_prev,
                    quiet, bounceHandled, track,
                    engagement, lifecycle, call >>

(* The run notes the campaign a failed call was made for. *)
Failed(s, ok) ==
    sw_failed' = IF ok THEN sw_failed
                 ELSE [sw_failed EXCEPT ![s] = @ \cup {sw_cur[s].id}]

(* The mutant of afterSendEmail: a failed send is thrown and ends the run. *)
afterSendEmail_m(ok) == IF ok THEN "update" ELSE "idle"

(* sendNextFollowUp does not look at what sendEmail returned: its          *)
(* updateCampaign comes next.                                              *)
afterSendEmail(ok) == "update"

(* sendEmail: resend.emails.send; an error or a throw gives sent: false. *)
SweepProvider(s) ==
    /\ sw_pc[s] = "provider"
    /\ \E ok \in Outcomes :
          LET r == sw_cur[s]
              to == r.row.recipient_email
          IN /\ providerCalls' = Bump(providerCalls, r.id, NextStep(r.row.status).type)
             /\ stats' = IF ok THEN [stats EXCEPT !.emailsSent = @ + 1] ELSE stats
             /\ pendingSent' = IF ok THEN [pendingSent EXCEPT ![to] = @ + 1]
                               ELSE pendingSent
             /\ sw_result' = [sw_result EXCEPT ![s] = IF ok THEN "sent" ELSE "error"]
             /\ sw_pc' = [sw_pc EXCEPT ![s] = afterSendEmail(ok)]
             /\ Fault(ok)
             /\ Failed(s, ok)
    /\ UNCHANGED << now, tables, nEvents, lastReply, lastEvent, sw_queue,
                    sw_cur, sw_count, sw_flagged, sw_advanced, sw_prev,
                    quiet, bounceHandled, track,
                    engagement, lifecycle, call >>

(* sendNextFollowUp: updateCampaign from the row as queried; a storage     *)
(* error is logged by updateCampaign and not raised.                       *)
SweepUpdate(s) ==
    /\ sw_pc[s] = "update"
    /\ \E ok \in Outcomes :
          LET r == sw_cur[s]
          IN /\ campaigns' =
                   IF ok
                   THEN updateCampaign(r.id,
                          [status |-> NextStep(r.row.status).type,
                           last_followup_at |-> now,
                           followup_count |-> r.row.followup_count + 1])
                   ELSE campaigns
             /\ sw_advanced' = IF ok THEN [sw_advanced EXCEPT ![s] = @ \cup {r.id}]
                               ELSE sw_advanced
             /\ Fault(ok)
             /\ Failed(s, ok)
    /\ sw_pc' = [sw_pc EXCEPT ![s] = "store"]
    /\ UNCHANGED << now, blocklist, conversations, stats, providerCalls,
                    pendingSent, nEvents, lastReply, lastEvent, sw_queue,
                    sw_cur, sw_count, sw_result, sw_flagged, sw_prev, quiet,
                    bounceHandled, track,
                    engagement, lifecycle, call >>

(* sendNextFollowUp: storeOutgoingEmail, whose insert result is not looked *)
(* at, then followUpsSent++ and the 10 second delay of the loop.           *)
SweepStore(s) ==
    /\ sw_pc[s] = "store"
    /\ \E ok \in Outcomes :
          /\ conversations' =
                IF ok THEN Bump(conversations, sw_cur[s].id,
                                NextStep(sw_cur[s].row.status).type)
                ELSE conversations
          /\ Fault(ok)
          /\ Failed(s, ok)
    /\ sw_count' = [sw_count EXCEPT ![s] = @ + 1]
    /\ sw_cur' = [sw_cur EXCEPT ![s] = NoRow]
    /\ sw_result' = [sw_result EXCEPT ![s] = "none"]
    /\ sw_pc' = [sw_pc EXCEPT ![s] = "loop"]
    /\ UNCHANGED << now, campaigns, blocklist, stats, providerCalls,
                    pendingSent, nEvents, lastReply, lastEvent, sw_queue,
                    sw_flagged, sw_advanced, sw_prev, quiet, bounceHandled,
                    track,
                    engagement, lifecycle, call >>

(* The loop is over: stats.followUpsSent += followUpsSent. *)
followUpReturn(s) ==
    /\ sw_pc[s] = "loop"
    /\ sw_queue[s] = {}
    /\ stats' = [stats EXCEPT !.followUpsSent = @ + sw_count[s]]
    /\ sw_count' = [sw_count EXCEPT ![s] = 0]
    /\ sw_pc' = [sw_pc EXCEPT ![s] = "idle"]
    /\ quiet' = quiet \cup sw_advanced[s]
    /\ sw_advanced' = [sw_advanced EXCEPT ![s] = {}]
    /\ sw_failed' = [sw_failed EXCEPT ![s] = {}]
    /\ UNCHANGED << now, tables, providerCalls, pendingSent, nEvents,
                    nFaults, lastReply, lastEvent, sw_queue, sw_cur,
                    sw_result, sw_flagged, sw_prev, bounceHandled, track,
                    engagement, call >>

SweepFinish(s) == followUpReturn(s) /\ UNCHANGED lifecycle

(* ----------------------------- start and stop ------------------------- *)

(* start(): running = true, then the first run of processFollowUpQueue,    *)
(* which start awaits before it sets the interval.                         *)
start(s) ==
    /\ starting = 0
    /\ followUpInterval < MaxStarts
    /\ running' = TRUE
    /\ starting' = s
    /\ followUpSelect(s)
    /\ UNCHANGED << webhookSecret, timers, followUpInterval >>

(* A run returns; the start() that awaited it goes on to setInterval and   *)
(* keeps the new interval in followUpInterval.                             *)
finishRun(s) ==
    /\ followUpReturn(s)
    /\ IF starting = s
       THEN /\ starting' = 0
            /\ followUpInterval' = followUpInterval + 1
            /\ timers' = timers \cup {followUpInterval + 1}
            /\ UNCHANGED << webhookSecret, running >>
       ELSE UNCHANGED lifecycle

(* The mutant of timerGuard: the callback does not look at running. *)
timerGuard_m == TRUE

(* The interval callback's if (this.running). *)
timerGuard == running

(* An interval that is set fires: its callback runs processFollowUpQueue. *)
timerFires(s) ==
    /\ timers # {}
    /\ timerGuard
    /\ followUpSelect(s)
    /\ UNCHANGED lifecycle

(* stop(): running = false and clearInterval(this.followUpInterval). *)
stop ==
    /\ running' = FALSE
    /\ timers' = timers \ {followUpInterval}
    /\ UNCHANGED << now, tables, stats, providerCalls, pendingSent, nEvents,
                    nFaults, lastReply, lastEvent, sweepLocals, sw_advanced,
                    sw_prev, quiet, bounceHandled, track, engagement, call,
                    webhookSecret, starting, followUpInterval >>

(* ------------------- opens and clicks, await by await ----------------- *)

(* trackOpen, trackClick, handleEmailOpened and handleEmailClicked each    *)
(* read the campaign (a select, or findCampaignByEmail), and after that    *)
(* await write the counter they read plus one with updateCampaign; other   *)
(* requests run between the two.                                           *)

OpenOps == {"trackOpen", "handleEmailOpened"}
ClickOps == {"trackClick", "handleEmailClicked"}

(* Requests arrive in the order of their numbers. *)
Arrives(r) ==
    /\ track[r].pc = "idle"
    /\ \A q \in Requests : q < r => track[q].pc # "idle"

TrackFrame ==
    /\ EventFrame
    /\ UNCHANGED << blocklist, conversations, stats, providerCalls,
                    pendingSent, nEvents, nFaults, lastReply, lastEvent,
                    bounceHandled, lifecycle, call >>

(* The request holds the row it read; with no row it returns at once. *)
Holds(r, op, id, link) ==
    /\ track' = [track EXCEPT ![r] =
          IF id \notin DOMAIN campaigns THEN DoneRequest
          ELSE [pc |-> "update", op |-> op, id |-> id, link |-> link,
                count |-> IF op \in OpenOps THEN campaigns[id].open_count
                          ELSE campaigns[id].click_count,
                stamp |-> IF op \in OpenOps THEN campaigns[id].opened_at
                          ELSE campaigns[id].clicked_at]]
    /\ UNCHANGED << campaigns, engagement >>
    /\ TrackFrame

(* trackOpen up to its updateCampaign: .select('opened_at, open_count') *)
trackOpenSelect(r, campaignId) ==
    Arrives(r) /\ Holds(r, "trackOpen", campaignId, "")

(* trackClick up to its updateCampaign: .select('clicked_at, click_count') *)
trackClickSelect(r, campaignId, targetUrl) ==
    Arrives(r) /\ Holds(r, "trackClick", campaignId, targetUrl)

(* handleEmailOpened up to its updateCampaign. *)
handleEmailOpenedFind(r, to) ==
    Arrives(r) /\ Holds(r, "handleEmailOpened", findCampaignByEmail(to), "")

(* handleEmailClicked up to its updateCampaign. *)
handleEmailClickedFind(r, to, link) ==
    Arrives(r) /\ Holds(r, "handleEmailClicked", findCampaignByEmail(to), link)

(* The mutant of trackOpenUpdates: opened_at stamped on every open. *)
trackOpenUpdates_m(req) ==
    [open_count |-> req.count + 1, opened_at |-> now]

trackOpenUpdates(req) ==
    IF req.stamp = NULL
    THEN [open_count |-> req.count + 1, opened_at |-> now]
    ELSE [open_count |-> req.count + 1]

(* Both branches of handleEmailOpened's if (!campaign.opened_at). *)
handleEmailOpenedUpdates(req) ==
    IF req.stamp = NULL
    THEN [opened_at |-> now, open_count |-> req.count + 1]
    ELSE [open_count |-> req.count + 1]

trackClickUpdates(req) ==
    IF req.stamp = NULL
    THEN [click_count |-> req.count + 1, clicked_at |-> now]
    ELSE [click_count |-> req.count + 1]

(* handleEmailClicked's updateCampaign, and its second one for a link      *)
(* that includes 'calendly'.                                               *)
handleEmailClickedUpdates(req) ==
    IF includesCalendly(req.link)
    THEN [clicked_at |-> now, click_count |-> req.count + 1,
          status |-> "booking", calendly_clicked_at |-> now]
    ELSE [clicked_at |-> now, click_count |-> req.count + 1]

trackingUpdates(req) ==
    CASE req.op = "trackOpen" -> trackOpenUpdates(req)
      [] req.op = "handleEmailOpened" -> handleEmailOpenedUpdates(req)
      [] req.op = "trackClick" -> trackClickUpdates(req)
      [] req.op = "handleEmailClicked" -> handleEmailClickedUpdates(req)

(* The event_type the request hands to logEngagement after its            *)
(* updateCampaign, "none" where it makes no call: trackOpen, trackClick    *)
(* and handleEmailClicked log every request, handleEmailOpened only inside *)
(* its if (!campaign.opened_at).                                           *)
engagementLogged(req) ==
    CASE req.op = "trackOpen" -> "open"
      [] req.op = "handleEmailOpened" -> IF req.stamp = NULL THEN "open" ELSE "none"
      [] req.op = "trackClick" -> "click"
      [] req.op = "handleEmailClicked" -> "click"

(* The request's updateCampaign(s), from the values it read, and its       *)
(* logEngagement.                                                          *)
TrackUpdate(r) ==
    /\ track[r].pc = "update"
    /\ campaigns' = updateCampaign(track[r].id, trackingUpdates(track[r]))
    /\ engagement' = logEngagement(track[r].id, engagementLogged(track[r]))
    /\ track' = [track EXCEPT ![r] = DoneRequest]
    /\ TrackFrame

(* ------------------------------ addTracking --------------------------- *)

(* A body is the sequence of the URLs the regular expression                *)
(* /(https?:\/\/[^\s<>"]+)/g matches in it, in order; the text between     *)
(* them is left as it is by String.replace.  A URL is its host, its path,  *)
(* and for a click redirect the campaign id and the URL its url parameter  *)
(* encodes (encodeURIComponent keeps letters, so the words of the encoded  *)
(* URL are still in it, its slashes are not).                              *)
TrackingHost == "tracking.base"
NoInner == << >>
Url(host, path) == [host |-> host, path |-> path, id |-> 0, inner |-> NoInner]

PlainUrl == Url("example.com", "/page")
SchedulingUrl == Url("calendly.com", "/maggieforbes/discovery")
ArticleUrl == Url("example.com", "/calendly-tips")
ForeignTrackUrl == Url("other.com", "/api/track/report")

(* `${trackingBaseUrl}/api/track/click/${campaignId}?url=${encodeURIComponent(match)}` *)
clickRedirect(campaignId, u) ==
    [host |-> TrackingHost, path |-> "/api/track/click", id |-> campaignId,
     inner |-> <<u.host, u.path>>]

(* The src of the tracking pixel. *)
trackingPixel(campaignId) ==
    [host |-> TrackingHost, path |-> "/api/track/open", id |-> campaignId,
     inner |-> NoInner]

BodyUrls == {PlainUrl, SchedulingUrl, ArticleUrl, ForeignTrackUrl,
             clickRedirect(1, PlainUrl)}
Bodies == UNION {[1..n -> BodyUrls] : n \in 0..MaxUrls}

(* match.includes('/api/track') *)
includesApiTrack(u) ==
    u.path \in {"/api/track/click", "/api/track/open", "/api/track/report"}

(* match.includes('calendly'), the encoded url parameter included. *)
includesCalendlyWord(u) ==
    LET has(host, path) == host = "calendly.com" \/ path = "/calendly-tips"
    IN \/ has(u.host, u.path)
       \/ u.inner # NoInner /\ has(u.inner[1], u.inner[2])

(* The replace callback. *)
wrapLink(campaignId, match) ==
    IF includesApiTrack(match) \/ includesCalendlyWord(match)
    THEN match
    ELSE clickRedirect(campaignId, match)

(* addTracking(body, campaignId); campaign id 0 is a missing one. *)
addTracking(body, campaignId) ==
    IF campaignId = 0 THEN body
    ELSE [i \in 1..Len(body) |-> wrapLink(campaignId, body[i])]
            \o << trackingPixel(campaignId) >>

(* The call returns. *)
addTrackingCall ==
    /\ Called("addTracking")
    /\ Returns(addTracking(call.args[1], call.args[2]))

(* ----------------------------- cleanReplyText ------------------------- *)

(* A text is a sequence of pieces: a word, a newline, a '>' character, an  *)
(* 'On <date>, <name> wrote:' line, a From:/Sent:/To:/Subject: header      *)
(* block, a run of five or more '_', a run of five or more '-'.            *)
Pieces == {"word", "\n", ">", "On .. wrote:", "From:..Subject:", "_____", "-----"}
Texts == UNION {[1..n -> Pieces] : n \in 0..MaxTextLen}

(* Whether the pattern of the given number (in the order of the patterns   *)
(* array) matches the text from piece i on.  />{1,}.*/gm matches at any    *)
(* '>', the m flag changing nothing for a pattern without ^ or $.          *)
matchesAt(pattern, text, i) ==
    CASE pattern = 1 -> text[i] = "On .. wrote:"
      [] pattern = 2 -> text[i] = "From:..Subject:"
      [] pattern = 3 -> text[i] = "_____"
      [] pattern = 4 -> text[i] = "-----"
      [] pattern = 5 -> text[i] = ">"
      [] pattern = 6 -> /\ i + 2 <= Len(text)
                        /\ text[i] = "\n" /\ text[i + 1] = "\n" /\ text[i + 2] = ">"

(* String.prototype.search: the index (from 0) of the first match, or -1. *)
search(text, pattern) ==
    LET found == {i \in 1..Len(text) : matchesAt(pattern, text, i)}
    IN IF found = {} THEN -1
       ELSE (CHOOSE i \in found : \A j \in found : i <= j) - 1

(* String.prototype.trim: newlines are white space. *)
RECURSIVE trim(_)
trim(text) ==
    IF text = << >> THEN text
    ELSE IF Head(text) = "\n" THEN trim(Tail(text))
    ELSE IF text[Len(text)] = "\n" THEN trim(SubSeq(text, 1, Len(text) - 1))
    ELSE text

(* The for loop over the patterns, from the given one on. *)
RECURSIVE cleanFrom(_, _)
cleanFrom(cleaned, pattern) ==
    IF pattern > 6 THEN cleaned
    ELSE LET match == search(cleaned, pattern)
         IN cleanFrom(IF match > 0 THEN SubSeq(cleaned, 1, match) ELSE cleaned,
                      pattern + 1)

cleanReplyText(text) == trim(cleanFrom(text, 1))

(* The call returns. *)
cleanReplyTextCall ==
    /\ Called("cleanReplyText")
    /\ Returns(cleanReplyText(call.args[1]))

(* ------------------------------ getAnalytics -------------------------- *)

(* The rows the select returns, by what getAnalytics reads of a row: which *)
(* of its timestamps are set and whether its status is meeting_scheduled.  *)
(* The input gives the number of rows of each kind.                        *)
RowKinds ==
    << {"sent_at"},
       {"sent_at", "delivered_at"},
       {"sent_at", "delivered_at", "opened_at", "clicked_at"},
       {"sent_at", "delivered_at", "replied_at"},
       {"sent_at", "delivered_at", "replied_at", "meeting_scheduled"},
       {"sent_at", "bounced_at"} >>
RowCounts == [1..Len(RowKinds) -> 0..MaxRows]

(* campaigns.filter(c => c.<column>).length *)
RECURSIVE countUpTo(_, _, _)
countUpTo(rows, column, k) ==
    IF k = 0 THEN 0
    ELSE countUpTo(rows, column, k - 1)
            + (IF column \in RowKinds[k] THEN rows[k] ELSE 0)

count(rows, column) == countUpTo(rows, column, Len(RowKinds))

(* A percentage string: '0%' has no decimal, and int.frac% has one. *)
ZeroPercent == [int |-> 0, frac |-> NULL]

(* The mutant of toFixed1: the digits after the first decimal cut off. *)
toFixed1_m(num, den) ==
    LET tenths == (1000 * num) \div den
    IN [int |-> tenths \div 10, frac |-> tenths % 10]

(* ((num / den) * 100).toFixed(1): the nearest tenth, the larger of two    *)
(* equally near ones.                                                      *)
toFixed1(num, den) ==
    LET tenths == (2000 * num + den) \div (2 * den)
    IN [int |-> tenths \div 10, frac |-> tenths % 10]

(* den > 0 ? ((num / den) * 100).toFixed(1) + '%' : '0%' *)
rate(num, den) == IF den > 0 THEN toFixed1(num, den) ELSE ZeroPercent

getAnalytics(rows) ==
    LET sent == count(rows, "sent_at")
        delivered == count(rows, "delivered_at")
        opened == count(rows, "opened_at")
        clicked == count(rows, "clicked_at")
        replied == count(rows, "replied_at")
        booked == count(rows, "meeting_scheduled")
        bounced == count(rows, "bounced_at")
    IN [sent |-> sent, delivered |-> delivered, opened |-> opened,
        clicked |-> clicked, replied |-> replied, booked |-> booked,
        bounced |-> bounced,
        deliveryRate |-> rate(delivered, sent),
        openRate |-> rate(opened, delivered),
        clickRate |-> rate(clicked, opened),
        replyRate |-> rate(replied, delivered),
        bookingRate |-> rate(booked, replied),
        bounceRate |-> rate(bounced, sent)]

(* The call returns. *)
getAnalyticsCall ==
    /\ Called("getAnalytics")
    /\ Returns(getAnalytics(call.args[1]))

(* ---------------------------- specifications -------------------------- *)

(* The replies the sequencer is run against. *)
SequencerActions == {"send_response_and_monitor", "mark_closed"}

(* The sequencer with the provider's events and replies. *)
Next ==
    \/ TickPeriod
    \/ \E to \in RawEmails : handleEmailSent(to)
    \/ \E to \in RawEmails, message \in BounceMessages :
          handleEmailBounced(to, message)
    \/ \E to \in RawEmails : handleEmailComplained(to)
    \/ \E from \in RawEmails, action \in SequencerActions :
          processIncomingReply(from, action, TRUE)
    \/ \E s \in SingleRun : SweepQuery(s)
    \/ \E s \in SingleRun : SweepSkip(s)
    \/ \E s \in SingleRun : SweepPick(s)
    \/ \E s \in SingleRun : SweepBlockCheck(s)
    \/ \E s \in SingleRun : SweepProvider(s)
    \/ \E s \in SingleRun : SweepUpdate(s)
    \/ \E s \in SingleRun : SweepStore(s)
    \/ \E s \in SingleRun : SweepFinish(s)

Spec == Init /\ [][Next]_vars

(* The reply processor with every classifier action. *)
NextReply ==
    \/ TickPeriod
    \/ \E to \in RawEmails : handleEmailSent(to)
    \/ \E to \in RawEmails, link \in Links : handleEmailClicked(to, link)
    \/ \E from \in RawEmails, action \in ClassifierActions, hasResponse \in BOOLEAN :
          processIncomingReply(from, action, hasResponse)

SpecReply == Init /\ [][NextReply]_vars

(* The sequencer on one campaign, the clock advancing one unit at a time. *)
NextDue ==
    \/ TickUnit
    \/ \E to \in RawEmails : handleEmailSent(to)
    \/ \E s \in SingleRun : SweepQuery(s)
    \/ \E s \in SingleRun : SweepSkip(s)
    \/ \E s \in SingleRun : SweepPick(s)
    \/ \E s \in SingleRun : SweepBlockCheck(s)
    \/ \E s \in SingleRun : SweepProvider(s)
    \/ \E s \in SingleRun : SweepUpdate(s)
    \/ \E s \in SingleRun : SweepStore(s)
    \/ \E s \in SingleRun : SweepFinish(s)

SpecDue == InitDue /\ [][NextDue]_vars

(* The sequencer as start() and the interval run it, on one campaign. *)
RunSteps(s) ==
    \/ SweepSkip(s)
    \/ SweepPick(s)
    \/ SweepBlockCheck(s)
    \/ SweepProvider(s)
    \/ SweepUpdate(s)
    \/ SweepStore(s)
    \/ finishRun(s)

NextLifecycle ==
    \/ TickPeriod
    \/ \E to \in RawEmails : handleEmailSent(to)
    \/ \E s \in SingleRun : start(s)
    \/ \E s \in SingleRun : timerFires(s)
    \/ stop
    \/ \E s \in SingleRun : RunSteps(s)

(* A run that has begun is not starved: each await of it returns. *)
SpecLifecycle ==
    InitDue /\ [][NextLifecycle]_vars /\ \A s \in SingleRun : WF_vars(RunSteps(s))

(* Two runs of processFollowUpQueue on one campaign: the interval's and a  *)
(* manually triggered one, or two intervals', or one that outlasts the     *)
(* hour.                                                                   *)
NextOverlap ==
    \/ TickPeriod
    \/ \E to \in RawEmails : handleEmailSent(to)
    \/ \E s \in SweepIds : SweepQuery(s)
    \/ \E s \in SweepIds : SweepSkip(s)
    \/ \E s \in SweepIds : SweepPick(s)
    \/ \E s \in SweepIds : SweepBlockCheck(s)
    \/ \E s \in SweepIds : SweepProvider(s)
    \/ \E s \in SweepIds : SweepUpdate(s)
    \/ \E s \in SweepIds : SweepStore(s)
    \/ \E s \in SweepIds : SweepFinish(s)

SpecOverlap == InitDue /\ [][NextOverlap]_vars

(* Replies and the hourly runs of processFollowUpQueue, the runs going on  *)
(* for ever: a run that can take a step takes it, a new run begins when    *)
(* none is in progress, and time passes.                                   *)
KeepsSweeping(s) ==
    \/ SweepQuery(s)
    \/ SweepSkip(s)
    \/ SweepPick(s)
    \/ SweepBlockCheck(s)
    \/ SweepProvider(s)
    \/ SweepUpdate(s)
    \/ SweepStore(s)
    \/ SweepFinish(s)

NextRetry ==
    \/ TickPeriod
    \/ \E to \in RawEmails : handleEmailSent(to)
    \/ \E from \in RawEmails, action \in ClassifierActions, hasResponse \in BOOLEAN :
          processIncomingReply(from, action, hasResponse)
    \/ \E s \in SingleRun : KeepsSweeping(s)

SpecRetry ==
    /\ InitDue
    /\ [][NextRetry]_vars
    /\ WF_vars(TickPeriod)
    /\ \A s \in SingleRun : WF_vars(KeepsSweeping(s))

(* Every operation of the engine, over a store with a blocklist row. *)
SpecBlocklist == InitBlocklist /\ [][Next]_vars

(* The replies the unsubscribe is run against. *)
UnsubscribeActions == {"remove_from_list", "send_response_and_monitor"}

(* The sequencer with replies that ask to be removed. *)
NextUnsubscribe ==
    \/ TickPeriod
    \/ \E to \in RawEmails : handleEmailSent(to)
    \/ \E from \in RawEmails, action \in UnsubscribeActions :
          processIncomingReply(from, action, TRUE)
    \/ \E s \in SingleRun : SweepQuery(s)
    \/ \E s \in SingleRun : SweepSkip(s)
    \/ \E s \in SingleRun : SweepPick(s)
    \/ \E s \in SingleRun : SweepBlockCheck(s)
    \/ \E s \in SingleRun : SweepProvider(s)
    \/ \E s \in SingleRun : SweepUpdate(s)
    \/ \E s \in SingleRun : SweepStore(s)
    \/ \E s \in SingleRun : SweepFinish(s)

SpecUnsubscribe == Init /\ [][NextUnsubscribe]_vars

(* The functions that only compute, called on every input. *)
ComputeCalls ==
    {Call("verifyWebhookSignature", <<payload, signature>>) :
        payload \in Payloads, signature \in Signatures}
    \cup {Call("addTracking", <<body, campaignId>>) :
             body \in Bodies, campaignId \in {0} \cup Campaigns}
    \cup {Call("addTracking", <<addTracking(body, campaignId), campaignId>>) :
             body \in Bodies, campaignId \in Campaigns}
    \cup {Call("cleanReplyText", <<text>>) : text \in Texts}
    \cup {Call("getAnalytics", <<rows>>) : rows \in RowCounts}

InitCompute ==
    \E c \in ComputeCalls, secret \in BOOLEAN :
       /\ InitWith(InitialCampaigns(<<"a@x.com">>), InitialPending(<<"a@x.com">>))
       /\ Constructed(secret, c)

NextCompute ==
    \/ verifyWebhookSignatureCall
    \/ addTrackingCall
    \/ cleanReplyTextCall
    \/ getAnalyticsCall

SpecCompute == InitCompute /\ [][NextCompute]_vars

(* The provider's webhook, one event of every type, and the inbound reply *)
(* webhook.                                                                *)
NextWebhook ==
    \/ TickPeriod
    \/ \E type \in EventTypes, to \in RawEmails :
          \E detail \in Details(type) : processWebhook(type, to, detail)
    \/ \E from \in RawEmails, action \in ClassifierActions, hasResponse \in BOOLEAN :
          processIncomingReply(from, action, hasResponse)

InitWebhook ==
    \E cfg \in Configs, secret \in BOOLEAN :
       InitWith(InitialCampaigns(cfg), InitialPending(cfg))
          /\ Constructed(secret, NoCall)

SpecWebhook == InitWebhook /\ [][NextWebhook]_vars

(* Opens and clicks from the tracking endpoints and the provider webhook,  *)
(* handled concurrently.                                                   *)
NextTrack ==
    \/ TickPeriod
    \/ \E r \in Requests, campaignId \in Campaigns : trackOpenSelect(r, campaignId)
    \/ \E r \in Requests, campaignId \in Campaigns, targetUrl \in Links :
          trackClickSelect(r, campaignId, targetUrl)
    \/ \E r \in Requests, to \in RawEmails : handleEmailOpenedFind(r, to)
    \/ \E r \in Requests, to \in RawEmails, link \in Links :
          handleEmailClickedFind(r, to, link)
    \/ \E r \in Requests : TrackUpdate(r)

SpecTrack == Init /\ [][NextTrack]_vars

(* ------------------------------ properties ---------------------------- *)

(* The run is inside sendNextFollowUp for sw_cur. *)
Sending(s) == sw_pc[s] \in {"blockcheck", "provider", "update", "store"}

Later(a, b) == IF a >= b THEN a ELSE b

(* C1: a run of processFollowUpQueue that starts once a campaign has       *)
(* bounced_at, unsubscribed_at or replied_at set never enters              *)
(* sendNextFollowUp for that campaign, so it neither sends to it nor       *)
(* writes its status, last_followup_at or followup_count.                  *)
C1_NoAdvanceAfterTerminal ==
    \A s \in SweepIds : Sending(s) => sw_cur[s].id \notin sw_flagged[s]

(* A run that began with a terminal campaign is sending to another one. *)
C1_Witness ==
    \E s \in SweepIds : Sending(s) /\ sw_flagged[s] # {}

(* C2: once email.bounced has been handled for an address, no step makes   *)
(* a provider call for a campaign of that address.                         *)
C2_NoDispatchAfterBounce ==
    [][\A c \in DOMAIN campaigns, t \in MessageTypes :
          campaigns[c].recipient_email \in bounceHandled
             => providerCalls'[<<c, t>>] = providerCalls[<<c, t>>]]_vars

(* C3: a follow-up whose sendEmail returned 'blocked' writes no            *)
(* conversation row for that attempt.                                      *)
C3_BlockedWritesNoRow ==
    [][\A s \in SweepIds :
          sw_result[s] = "blocked"
             => LET k == <<sw_cur[s].id, NextStep(sw_cur[s].row.status).type>>
                IN conversations'[k] = conversations[k]]_vars

(* C4: a run that starts after a completed run, at the same instant and    *)
(* with no event in between, never enters sendNextFollowUp for a campaign  *)
(* the completed run advanced.                                             *)
C4_RerunSendsNothing ==
    \A s \in SweepIds : Sending(s) => sw_cur[s].id \notin sw_prev[s]

(* The second run has selected a campaign the first run advanced. *)
C4_Witness ==
    \E s \in SweepIds :
        /\ sw_pc[s] = "loop"
        /\ \E r \in sw_queue[s] : r.id \in sw_prev[s]

(* Position in draft < sent < follow_up_1 < follow_up_2 < follow_up_final, *)
(* every later lifecycle status above them.                                *)
SeqRank(status) ==
    CASE status = "draft" -> 0
      [] status = "sent" -> 1
      [] status = "follow_up_1" -> 2
      [] status = "follow_up_2" -> 3
      [] status = "follow_up_final" -> 4
      [] OTHER -> 5

(* C5: no step moves a campaign's status backwards in the sequence order   *)
(* or from a later lifecycle status back to a sequence status.             *)
C5_StatusNeverRegresses ==
    [][\A c \in DOMAIN campaigns :
          SeqRank(campaigns'[c].status) >= SeqRank(campaigns[c].status)]_vars

(* C6: handling email.sent (the only step that consumes an owed event)     *)
(* leaves the status of a campaign past its first send unchanged.          *)
C6_SentIsFirstTouchOnly ==
    [][(\E e \in StoredEmails : pendingSent'[e] < pendingSent[e])
          => \A c \in DOMAIN campaigns :
                campaigns[c].status \notin {"draft", "sent"}
                   => campaigns'[c].status = campaigns[c].status]_vars

(* C7: with no provider or storage failure, each follow-up step is handed  *)
(* to the provider at most once per campaign.                              *)
C7_EachStepAtMostOnce ==
    nFaults = 0 =>
        \A c \in DOMAIN campaigns, t \in FollowUpTypes : providerCalls[<<c, t>>] <= 1

(* C8: for a campaign in status sent with no last_followup_at, the due     *)
(* check is true exactly from 72 hours after sent_at, and a run is only    *)
(* ever sending follow_up_1 to such a row 72 hours or more after sent_at.  *)
C8_DueAt72Hours ==
    /\ \A c \in DOMAIN campaigns :
          LET r == campaigns[c]
          IN (r.status = "sent" /\ r.last_followup_at = NULL /\ r.sent_at # NULL)
                => (shouldSendFollowUp(r, now) <=> now - r.sent_at >= 72 * Hour)
    /\ \A s \in SweepIds :
          (/\ Sending(s)
           /\ sw_cur[s].row.status = "sent"
           /\ sw_cur[s].row.last_followup_at = NULL)
             => now - sw_cur[s].row.sent_at >= 72 * Hour

(* The run picked a sent campaign exactly 72 hours after sent_at. *)
C8_Witness ==
    \E s \in SweepIds :
        /\ sw_pc[s] = "blockcheck"
        /\ sw_cur[s].row.status = "sent"
        /\ sw_cur[s].row.last_followup_at = NULL
        /\ now - sw_cur[s].row.sent_at = 72 * Hour

(* The incremental delay of the step after the status: 72, 96, 168. *)
IncrementalDelay(status) ==
    CASE status = "sent" -> 72
      [] status = "follow_up_1" -> 168 - 72
      [] status = "follow_up_2" -> 336 - 168

(* C9: in status sent, follow_up_1 or follow_up_2 the due check is true    *)
(* iff the time since the later of sent_at and last_followup_at is at      *)
(* least the incremental delay of the next step.                           *)
C9_DueSinceLaterTouch ==
    \A c \in DOMAIN campaigns :
        LET r == campaigns[c]
        IN r.status \in {"sent", "follow_up_1", "follow_up_2"}
              => (shouldSendFollowUp(r, now)
                    <=> now - Later(r.sent_at, r.last_followup_at)
                           >= IncrementalDelay(r.status) * Hour)

(* C10: a reply whose classified action is outside the known set ends in   *)
(* an error outcome.                                                       *)
C10_UnknownActionIsError ==
    lastReply.action \notin (KnownActions \cup {"none"})
        => lastReply.outcome = "error"

(* A step that is one processIncomingReply request. *)
ReplyStep == lastReply'.n # lastReply.n

(* C11: a processIncomingReply whose classifier call fails for a matched   *)
(* campaign ends in an error for the caller, leaves that campaign with     *)
(* replied_at set, status replied and the cleaned text stored, changes no  *)
(* other campaign field or campaign, and hands nothing to the provider.    *)
C11_ClassifierFailureLeavesReplied ==
    [][(ReplyStep /\ lastReply'.classifier = "failed")
          => /\ lastReply'.outcome = "error"
             /\ \E c \in DOMAIN campaigns :
                   /\ campaigns[c].recipient_email = toLowerCase(lastReply'.from)
                   /\ campaigns' = [campaigns EXCEPT ![c] =
                         [@ EXCEPT !.replied_at = now, !.status = "replied",
                                   !.last_reply_text = "cleaned"]]
             /\ UNCHANGED << providerCalls, pendingSent,
                             conversations >>]_vars

(* The classifier failed on a reply and the campaign is marked replied. *)
C11_Witness ==
    /\ lastReply.classifier = "failed"
    /\ \E c \in DOMAIN campaigns :
          /\ campaigns[c].recipient_email = toLowerCase(lastReply.from)
          /\ campaigns[c].status = "replied"
          /\ campaigns[c].replied_at # NULL

(* No campaign has the sender's lower-cased address as its recipient. *)
NoCampaignFor(from) ==
    \A c \in DOMAIN campaigns : campaigns[c].recipient_email # toLowerCase(from)

(* C12: a processIncomingReply from a sender with no matching campaign     *)
(* returns no_campaign_found and no error, does not call the classifier,   *)
(* and leaves the campaigns, the blocklist, the conversation log and the   *)
(* stats unchanged.                                                        *)
C12_NoCampaignIsNoOp ==
    [][(ReplyStep /\ NoCampaignFor(lastReply'.from))
          => /\ lastReply'.outcome = "no_campaign_found"
             /\ lastReply'.classifier = "not_called"
             /\ UNCHANGED << campaigns, blocklist, conversations,
                             stats >>]_vars

(* A reply from an address with no campaign has been processed. *)
C12_Witness ==
    /\ lastReply.n > 0
    /\ NoCampaignFor(lastReply.from)
    /\ lastReply.outcome = "no_campaign_found"

(* A step that handles one recipient-driven event of the given type. *)
EventStep(type) == nEvents' # nEvents /\ lastEvent'.type = type

(* The campaigns whose recipient is the lower-cased address. *)
CampaignsOf(email) ==
    {c \in DOMAIN campaigns : campaigns[c].recipient_email = toLowerCase(email)}

(* C13: handling email.bounced for a recipient that has a campaign leaves  *)
(* a campaign of that recipient with status bounced, bounced_at set and    *)
(* bounce_reason equal to the event's bounce message, and a blocklist row  *)
(* for the lower-cased recipient with reason bounce.                       *)
C13_BounceMarksAndBlocks ==
    [][(EventStep("email.bounced") /\ CampaignsOf(lastEvent'.to) # {})
          => /\ \E c \in CampaignsOf(lastEvent'.to) :
                   /\ campaigns'[c].status = "bounced"
                   /\ campaigns'[c].bounced_at = now
                   /\ (lastEvent'.detail # NoMessage
                          => campaigns'[c].bounce_reason = lastEvent'.detail)
             /\ blocklist'[toLowerCase(lastEvent'.to)] = "bounce"]_vars

(* A bounce with a message, for an address given in upper case, has been   *)
(* handled for a campaign.                                                 *)
C13_Witness ==
    /\ lastEvent.type = "email.bounced"
    /\ lastEvent.to = "A@x.com"
    /\ lastEvent.detail # NoMessage
    /\ \E c \in CampaignsOf(lastEvent.to) :
          campaigns[c].bounce_reason = lastEvent.detail

(* C14: handling email.complained leaves a campaign of the recipient with  *)
(* status unsubscribed, unsubscribed_at set and reason spam_complaint, and *)
(* a blocklist row for the recipient; blocklist rows are never removed,    *)
(* and a sendEmail that starts while the address has a row returns         *)
(* blocked without a provider call, in the sweep and in a reply.           *)
C14_ComplaintBlocksLaterSends ==
    [][/\ EventStep("email.complained")
          => /\ CampaignsOf(lastEvent'.to) # {}
                   => \E c \in CampaignsOf(lastEvent'.to) :
                         /\ campaigns'[c].status = "unsubscribed"
                         /\ campaigns'[c].unsubscribed_at = now
                         /\ campaigns'[c].unsubscribe_reason = "spam_complaint"
             /\ blocklist'[toLowerCase(lastEvent'.to)] # "none"
       /\ \A e \in StoredEmails :
             blocklist[e] # "none" => blocklist'[e] # "none"
       /\ \A s \in SweepIds :
             (/\ sw_pc[s] = "blockcheck"
              /\ sw_pc'[s] # "blockcheck"
              /\ blocklist[sw_cur[s].row.recipient_email] # "none")
                => /\ sw_result'[s] = "blocked"
                   /\ sw_pc'[s] # "provider"
                   /\ providerCalls' = providerCalls
       /\ (ReplyStep /\ blocklist[toLowerCase(lastReply'.from)] # "none")
             => providerCalls' = providerCalls]_vars

(* After a complaint was handled, the sweep's sendEmail to that address    *)
(* has returned blocked.                                                   *)
C14_Witness ==
    /\ lastEvent.type = "email.complained"
    /\ \E s \in SweepIds :
          /\ sw_result[s] = "blocked"
          /\ sw_cur[s].row.recipient_email = toLowerCase(lastEvent.to)

(* C15: once a reply classified send_calendar_link has been processed with *)
(* no failure and the provider's email.sent events for the address have    *)
(* all been handled, exactly one booking email has been handed to the      *)
(* provider for the campaign and its status is booking_sent.               *)
C15_BookingSentStays ==
    (/\ lastReply.action = "send_calendar_link"
     /\ lastEvent.type = "reply"
     /\ nFaults = 0
     /\ pendingSent[toLowerCase(lastReply.from)] = 0)
        => \E c \in CampaignsOf(lastReply.from) :
              /\ providerCalls[<<c, "booking_invitation">>] = 1
              /\ campaigns[c].status = "booking_sent"

(* The request's updateCampaign is this step. *)
UpdateStep(r) == track[r].pc = "update" /\ track'[r].pc = "done"

(* Nothing has written the counter and timestamp since the request read    *)
(* them: the request runs after the previous one, not alongside it.        *)
Fresh(r) ==
    LET row == campaigns[track[r].id]
    IN IF track[r].op \in OpenOps
       THEN row.open_count = track[r].count /\ row.opened_at = track[r].stamp
       ELSE row.click_count = track[r].count /\ row.clicked_at = track[r].stamp

(* C16: an open recorded after the previous one (by trackOpen or by the    *)
(* email.opened webhook) adds exactly one to open_count and sets opened_at *)
(* only when it was unset, so of two opens in a row the first sets         *)
(* opened_at, the second leaves it, and open_count goes up by 2.           *)
C16_TwoOpensInARow ==
    [][\A r \in Requests :
          (UpdateStep(r) /\ track[r].op \in OpenOps /\ Fresh(r))
             => LET c == track[r].id
                IN /\ campaigns'[c].open_count = campaigns[c].open_count + 1
                   /\ campaigns'[c].opened_at =
                         IF campaigns[c].opened_at = NULL THEN now
                         ELSE campaigns[c].opened_at]_vars

(* Two opens, the second one after the clock moved on, have been recorded  *)
(* on a campaign: open_count is 2 and opened_at is the first open's time.  *)
C16_Witness ==
    /\ track[1].pc = "done" /\ track[2].pc = "done" /\ track[3].pc = "idle"
    /\ \E c \in DOMAIN campaigns :
          /\ campaigns[c].open_count = 2
          /\ campaigns[c].opened_at # NULL
          /\ campaigns[c].opened_at < now

(* C17: a click or open recorded after the previous one, on either path,   *)
(* leaves a clicked_at or opened_at that is already set unchanged.         *)
C17_FirstTimestampsWriteOnce ==
    [][\A r \in Requests :
          (UpdateStep(r) /\ Fresh(r))
             => \A c \in DOMAIN campaigns :
                   /\ campaigns[c].clicked_at # NULL
                         => campaigns'[c].clicked_at = campaigns[c].clicked_at
                   /\ campaigns[c].opened_at # NULL
                         => campaigns'[c].opened_at = campaigns[c].opened_at]_vars

(* C18: no step lowers open_count, click_count or followup_count of a      *)
(* campaign.                                                               *)
C18_CountersNeverDecrease ==
    [][\A c \in DOMAIN campaigns :
          /\ campaigns'[c].open_count >= campaigns[c].open_count
          /\ campaigns'[c].click_count >= campaigns[c].click_count
          /\ campaigns'[c].followup_count >= campaigns[c].followup_count]_vars

(* C19: recording a click sets status booking and calendly_clicked_at when *)
(* the link is on the scheduling domain, on the redirect endpoint and on   *)
(* the webhook alike, and changes neither for any other link.              *)
C19_SchedulingClickIsHotLead ==
    [][\A r \in Requests :
          (UpdateStep(r) /\ track[r].op \in ClickOps)
             => LET c == track[r].id
                IN IF includesCalendly(track[r].link)
                   THEN /\ campaigns'[c].status = "booking"
                        /\ campaigns'[c].calendly_clicked_at = now
                   ELSE /\ campaigns'[c].status = campaigns[c].status
                        /\ campaigns'[c].calendly_clicked_at =
                              campaigns[c].calendly_clicked_at]_vars

(* C20: a failed provider call or storage write for one campaign does not  *)
(* end the run: the step leaves the queue as it is and the run goes on;    *)
(* the run only returns with its queue empty; and a queued row leaves the  *)
(* queue unprocessed only when its follow-up is not due.                   *)
C20_FailureDoesNotStopSweep ==
    [][\A s \in SweepIds :
          /\ (Sending(s) /\ sw_pc'[s] # sw_pc[s] /\ nFaults' > nFaults)
                => /\ sw_queue'[s] = sw_queue[s]
                   /\ sw_pc'[s] \in {"update", "store", "loop"}
          /\ (sw_pc[s] # "idle" /\ sw_pc'[s] = "idle") => sw_queue[s] = {}
          /\ \A r \in sw_queue[s] \ sw_queue'[s] :
                shouldSendFollowUp(r.row, now)
                   => sw_cur'[s] = r /\ sw_pc'[s] = "blockcheck"]_vars

(* After a call failed for one campaign, the same run is sending to        *)
(* another one.                                                            *)
C20_Witness ==
    \E s \in SweepIds :
        /\ Sending(s)
        /\ sw_failed[s] # {}
        /\ sw_cur[s].id \notin sw_failed[s]

(* C21: once sendEmail has returned an error for a follow-up, the run does *)
(* not advance that campaign (status, last_followup_at and followup_count  *)
(* stay as they are) and writes no conversation row for the attempt.       *)
C21_FailedSendDoesNotAdvance ==
    [][\A s \in SweepIds :
          (sw_result[s] = "error" /\ sw_pc'[s] # sw_pc[s])
             => LET c == sw_cur[s].id
                    k == <<c, NextStep(sw_cur[s].row.status).type>>
                IN /\ campaigns'[c].status = campaigns[c].status
                   /\ campaigns'[c].last_followup_at = campaigns[c].last_followup_at
                   /\ campaigns'[c].followup_count = campaigns[c].followup_count
                   /\ conversations'[k] = conversations[k]]_vars

(* C29: on every path that records an open (the pixel request and the     *)
(* email.opened webhook) the request appends an 'open' engagement row when *)
(* the campaign had no opened_at and none when it had one; every click     *)
(* request appends one 'click' row.  Requests that wrote over another     *)
(* request's update are left aside.                                        *)
C29_EngagementOnFirstOpenOnly ==
    [][\A r \in Requests :
          (UpdateStep(r) /\ Fresh(r)) =>
             LET id == track[r].id
             IN /\ track[r].op \in OpenOps =>
                      engagement'[<<id, "open">>] =
                         engagement[<<id, "open">>]
                            + (IF campaigns[id].opened_at = NULL THEN 1 ELSE 0)
                /\ track[r].op \in ClickOps =>
                      engagement'[<<id, "click">>] = engagement[<<id, "click">>] + 1]_vars

WebhookStep ==
    /\ call'.fn = "processWebhook"
    /\ nEvents' # nEvents
    /\ lastEvent'.type # "reply"

(* C22: processWebhook does not return {processed: true} for an event     *)
(* whose handler's campaign update was not persisted.                      *)
C22_StorageFailureIsSurfaced ==
    [][(WebhookStep /\ ~call'.stored) => call'.returned # "processed"]_vars

(* C30: processWebhook for a type it has no case for returns as for any   *)
(* other event and changes no table; for email.delivery_delayed of a       *)
(* recipient with a campaign it appends one 'delivery_delayed' engagement  *)
(* row and nothing else, leaving the campaigns as they were.               *)
C30_UnknownAndDelayedEvents ==
    [][/\ (WebhookStep /\ call'.type \notin WebhookTypes)
            => /\ call'.returned = "processed"
               /\ UNCHANGED << tables, engagement, stats >>
       /\ (WebhookStep /\ call'.type = "email.delivery_delayed")
            => /\ call'.returned = "processed"
               /\ UNCHANGED << tables, stats >>
               /\ engagement' = IF call'.id = 0 THEN engagement
                                ELSE [engagement EXCEPT
                                        ![<<call'.id, "delivery_delayed">>] = @ + 1]]_vars

(* Both events have been handled: a delayed delivery logged for campaign   *)
(* 1, or an event of an unknown type returned from.                        *)
C30_Witness ==
    /\ call.fn = "processWebhook"
    /\ \/ call.type = "email.delivery_delayed"
          /\ engagement[<<1, "delivery_delayed">>] = 1
          /\ campaigns[1].status = "draft"
       \/ call.type = "contact.created" /\ call.returned = "processed"

(* C24: with a secret configured, verifyWebhookSignature yields true for  *)
(* the payload's HMAC digest and false for every other signature, of any   *)
(* length, and it changes no state; with no secret it yields true for      *)
(* every signature.                                                        *)
C24_SignatureVerification ==
    Returned("verifyWebhookSignature") =>
       call.returned = IF ~webhookSecret THEN "true"
                       ELSE IF call.args[2] = hmacDigest(call.args[1]) THEN "true"
                       ELSE "false"

(* C25: a reply the classifier answers with remove_from_list leaves a     *)
(* blocklist row with reason unsubscribe for the campaign's recipient;     *)
(* rows are never removed, and a sendEmail that starts while the address   *)
(* has the row returns blocked without a provider call, in the sweep and   *)
(* in a reply.                                                             *)
C25_RemoveFromListBlocksLaterSends ==
    [][/\ (ReplyStep /\ lastReply'.action = "remove_from_list")
            => blocklist'[toLowerCase(lastReply'.from)] = "unsubscribe"
       /\ \A e \in StoredEmails :
             blocklist[e] = "unsubscribe" => blocklist'[e] = "unsubscribe"
       /\ \A s \in SweepIds :
             (/\ sw_pc[s] = "blockcheck"
              /\ sw_pc'[s] # "blockcheck"
              /\ blocklist[sw_cur[s].row.recipient_email] = "unsubscribe")
                => /\ sw_result'[s] = "blocked"
                   /\ sw_pc'[s] # "provider"
                   /\ providerCalls' = providerCalls
                   /\ pendingSent' = pendingSent
       /\ (ReplyStep /\ blocklist[toLowerCase(lastReply'.from)] = "unsubscribe")
             => providerCalls' = providerCalls /\ pendingSent' = pendingSent]_vars

(* After a remove_from_list reply, the sweep's sendEmail to the address    *)
(* (for the recipient's older campaign) has returned blocked.              *)
C25_Witness ==
    /\ lastReply.action = "remove_from_list"
    /\ blocklist[toLowerCase(lastReply.from)] = "unsubscribe"
    /\ \E s \in SweepIds :
          /\ sw_result[s] = "blocked"
          /\ sw_cur[s].row.recipient_email = toLowerCase(lastReply.from)

(* A link to one of the engine's own tracking endpoints, and a link on the *)
(* scheduling domain.                                                      *)
IsInternalTracking(u) ==
    u.host = TrackingHost /\ u.path \in {"/api/track/click", "/api/track/open"}

OnSchedulingDomain(u) == u.host = "calendly.com"

(* C26: addTracking for a campaign leaves every URL that is an internal    *)
(* tracking link or on the scheduling domain as it is and turns every      *)
(* other URL into the click redirect for the campaign and that URL; in     *)
(* its result, applied to again, every URL stays as it is.                 *)
C26_AddTrackingRewritesOnce ==
    (Returned("addTracking") /\ call.args[2] # 0) =>
       LET body == call.args[1]
           campaignId == call.args[2]
       IN /\ \A i \in 1..Len(body) :
                call.returned[i] =
                   IF IsInternalTracking(body[i]) \/ OnSchedulingDomain(body[i])
                   THEN body[i]
                   ELSE clickRedirect(campaignId, body[i])
          /\ (\E b \in Bodies : body = addTracking(b, campaignId))
                => \A i \in 1..Len(body) : call.returned[i] = body[i]

(* A quote boundary starts at piece i: one of the four marker pieces, or a *)
(* '>' that begins a line.                                                 *)
BoundaryAt(text, i) ==
    \/ text[i] \in {"On .. wrote:", "From:..Subject:", "_____", "-----"}
    \/ text[i] = ">" /\ (i = 1 \/ text[i - 1] = "\n")

(* The text before its earliest boundary, or all of it when it has none. *)
BeforeBoundary(text) ==
    LET at == {i \in 1..Len(text) : BoundaryAt(text, i)}
    IN IF at = {} THEN text
       ELSE SubSeq(text, 1, (CHOOSE i \in at : \A j \in at : i <= j) - 1)

(* C28: cleanReplyText returns, trimmed, the text before its earliest     *)
(* quote boundary, and the whole text trimmed when it has no boundary, a   *)
(* '>' in the middle of a line not being one.                              *)
C28_CleanReplyCutsAtFirstBoundary ==
    Returned("cleanReplyText") => call.returned = trim(BeforeBoundary(call.args[1]))

(* The percentage string is num over den as a percentage to one decimal,   *)
(* or '0%' when den is 0.                                                  *)
IsRate(r, num, den) ==
    IF den = 0 THEN r = ZeroPercent
    ELSE /\ r.frac \in 0..9
         /\ LET tenths == 10 * r.int + r.frac
            IN /\ 2 * den * tenths - den <= 2000 * num
               /\ 2000 * num < 2 * den * tenths + den

(* C27: every rate getAnalytics returns is the count of its stage over the *)
(* count of the stage before it (delivered over sent, opened over          *)
(* delivered, clicked over opened, replied over delivered, booked over     *)
(* replied, bounced over sent) as a percentage, '0%' when that count is 0, *)
(* and the call changes no table.                                          *)
C27_RatesOverPreviousStage ==
    [][(Called("getAnalytics") /\ call'.done)
          => /\ LET a == call'.returned
                IN /\ IsRate(a.deliveryRate, a.delivered, a.sent)
                   /\ IsRate(a.openRate, a.opened, a.delivered)
                   /\ IsRate(a.clickRate, a.clicked, a.opened)
                   /\ IsRate(a.replyRate, a.replied, a.delivered)
                   /\ IsRate(a.bookingRate, a.booked, a.replied)
                   /\ IsRate(a.bounceRate, a.bounced, a.sent)
             /\ UNCHANGED << tables, engagement >>]_vars

(* Of 8 rows with sent_at, 4 have delivered_at: deliveryRate is 50.0%, and *)
(* with nothing opened clickRate is 0%.                                    *)
C27_Witness ==
    /\ Returned("getAnalytics")
    /\ call.returned.sent = 8
    /\ call.returned.delivered = 4
    /\ call.returned.deliveryRate = [int |-> 50, frac |-> 0]
    /\ call.returned.clickRate = ZeroPercent

(* C23: while running is false (stop() has returned and start() has not   *)
(* been called again) no run of processFollowUpQueue begins; stop() leaves *)
(* the run in progress and the tables as they are; a run in progress       *)
(* while the engine is stopped still persists the advance of a campaign    *)
(* it sent to, and it returns.                                             *)
C23_StopPreventsOnlyNewRuns ==
    /\ [][/\ (~running /\ ~running')
              => \A s \in SweepIds : ~(sw_pc[s] = "idle" /\ sw_pc'[s] # "idle")
          /\ (running /\ ~running')
              => UNCHANGED << sweepLocals, tables, stats, providerCalls >>
          /\ \A s \in SweepIds :
                (/\ ~running
                 /\ sw_pc[s] = "update" /\ sw_pc'[s] = "store"
                 /\ nFaults' = nFaults)
                   => /\ campaigns'[sw_cur[s].id].status
                            = NextStep(sw_cur[s].row.status).type
                      /\ campaigns'[sw_cur[s].id].last_followup_at = now]_vars
    /\ \A s \in SweepIds : (~running /\ sw_pc[s] # "idle") ~> (sw_pc[s] = "idle")

(* The engine was stopped during a run, and the run has since persisted    *)
(* the follow-up it sent.                                                  *)
C23_Witness ==
    /\ ~running
    /\ \E s \in SweepIds :
          /\ sw_pc[s] = "store"
          /\ sw_result[s] = "sent"
          /\ campaigns[sw_cur[s].id].status = "follow_up_1"

(* C31: a reply the classifier answers with wait_and_retry leaves the     *)
(* campaign with status retry_scheduled and retry_scheduled_at 72 hours    *)
(* after the handling time, and the request hands nothing to the provider. *)
C31_WaitAndRetrySchedules ==
    [][(ReplyStep /\ lastReply'.action = "wait_and_retry")
          => LET id == findCampaignByEmail(lastReply'.from)
             IN /\ id # 0
                /\ campaigns'[id].status = "retry_scheduled"
                /\ campaigns'[id].retry_scheduled_at = now + 72 * Hour
                /\ campaigns'[id].replied_at = now
                /\ providerCalls' = providerCalls
                /\ pendingSent' = pendingSent
                /\ stats'.emailsSent = stats.emailsSent
                /\ conversations' = conversations]_vars

(* An out-of-office reply handled at 72h: the retry is scheduled for 144h. *)
C31_Witness ==
    /\ lastEvent.type = "reply"
    /\ lastReply.action = "wait_and_retry"
    /\ now = Period
    /\ \E c \in DOMAIN campaigns :
          /\ campaigns[c].status = "retry_scheduled"
          /\ campaigns[c].retry_scheduled_at = 2 * Period

(* C32: the only campaign a webhook event or a reply changes is the most   *)
(* recently created one of the event's address; every other campaign,      *)
(* older ones of the same address included, keeps all its fields.          *)
C32_OnlyLatestCampaignChanges ==
    [][nEvents' # nEvents
          => \A c \in DOMAIN campaigns :
                campaigns'[c] # campaigns[c]
                   => /\ campaigns[c].recipient_email = toLowerCase(lastEvent'.to)
                      /\ \A d \in DOMAIN campaigns :
                            campaigns[d].recipient_email = campaigns[c].recipient_email
                               => d <= c]_vars

(* The address has two campaigns; an event for it has changed the newer    *)
(* one and the older one is as it was created and sent.                    *)
C32_Witness ==
    /\ nEvents > 0
    /\ DOMAIN campaigns = {1, 2}
    /\ campaigns[1].recipient_email = campaigns[2].recipient_email
    /\ toLowerCase(lastEvent.to) = campaigns[2].recipient_email
    /\ campaigns[2].status \in {"bounced", "unsubscribed", "replied", "booking"}
    /\ campaigns[1] = InitialCampaigns(<<"a@x.com", "a@x.com">>)[1]

(* The follow-ups handed to the provider for the campaign so far. *)
FollowUpCalls(c) ==
    providerCalls[<<c, "follow_up_1">>] + providerCalls[<<c, "follow_up_2">>]
       + providerCalls[<<c, "follow_up_final">>]

(* C33: with runs of processFollowUpQueue overlapping, no failure, and no  *)
(* email.sent event of a follow-up handled yet (each follow-up sent is     *)
(* still owed its event), no step is handed to the provider twice for a    *)
(* campaign, and once the runs have returned followup_count is the number  *)
(* of follow-ups sent.                                                     *)
C33_OverlappingRunsSendOnce ==
    (/\ nFaults = 0
     /\ \A c \in DOMAIN campaigns :
           pendingSent[campaigns[c].recipient_email] = FollowUpCalls(c))
       => \A c \in DOMAIN campaigns :
             /\ \A t \in FollowUpTypes : providerCalls[<<c, t>>] <= 1
             /\ (\A s \in SweepIds : sw_pc[s] = "idle")
                   => campaigns[c].followup_count = FollowUpCalls(c)

(* C34: a run of processFollowUpQueue does not act on a row that has been  *)
(* replied to since its query: it hands no follow-up to the provider for a *)
(* campaign whose stored replied_at is set, and its updateCampaign leaves  *)
(* the status of such a campaign as the reply or its dispatch set it.      *)
C34_SweepSeesReply ==
    [][\A s \in SweepIds :
          LET id == sw_cur[s].id
          IN /\ (sw_pc[s] = "provider" /\ sw_pc'[s] # "provider")
                   => campaigns[id].replied_at = NULL
             /\ (/\ sw_pc[s] = "update"
                 /\ sw_pc'[s] # "update"
                 /\ campaigns[id].replied_at # NULL)
                   => campaigns'[id].status = campaigns[id].status]_vars

(* C35: the statuses 'bounced' and 'unsubscribed' are absorbing: a         *)
(* campaign that has one of them keeps it in every step of the engine.     *)
C35_TerminalStatusAbsorbing ==
    [][\A c \in DOMAIN campaigns :
          campaigns[c].status \in {"bounced", "unsubscribed"}
             => campaigns'[c].status = campaigns[c].status]_vars

(* C36: the blocklist only grows: an address for which isEmailBlocked is   *)
(* true stays blocked in every step, and a block of an address that has a  *)
(* row already leaves its one row with the reason of the latest write:     *)
(* bounce after a bounce with a campaign, unsubscribe after a complaint or *)
(* an unsubscribe reply.                                                   *)
C36_BlocklistOnlyGrows ==
    [][/\ \A e \in RawEmails :
             isEmailBlocked(e) => blocklist'[toLowerCase(e)] # "none"
       /\ (/\ EventStep("email.bounced")
           /\ findCampaignByEmail(lastEvent'.to) # 0
           /\ isEmailBlocked(lastEvent'.to))
             => blocklist'[toLowerCase(lastEvent'.to)] = "bounce"
       /\ (EventStep("email.complained") /\ isEmailBlocked(lastEvent'.to))
             => blocklist'[toLowerCase(lastEvent'.to)] = "unsubscribe"
       /\ (/\ ReplyStep
           /\ lastReply'.action = "remove_from_list"
           /\ findCampaignByEmail(lastReply'.from) # 0
           /\ isEmailBlocked(lastReply'.from))
             => blocklist'[toLowerCase(lastReply'.from)] = "unsubscribe"]_vars

(* The bounce of an address that had unsubscribed before has been handled: *)
(* its row now has the reason bounce.                                      *)
C36_Witness ==
    /\ lastEvent.type = "email.bounced"
    /\ toLowerCase(lastEvent.to) = "a@x.com"
    /\ campaigns[1].status = "unsubscribed"
    /\ campaigns[1].unsubscribed_at < now
    /\ campaigns[2].status = "bounced"
    /\ isEmailBlocked("a@x.com")
    /\ blocklist["a@x.com"] = "bounce"

(* C37: handling email.bounced leaves the recipient blocked whether or not *)
(* findCampaignByEmail found a campaign for it, as email.complained does.  *)
C37_BounceBlocksWithoutCampaign ==
    [][(EventStep("email.bounced") \/ EventStep("email.complained"))
          => blocklist'[toLowerCase(lastEvent'.to)] # "none"]_vars

(* C38: under any sequence of start() and stop() at most one interval is   *)
(* scheduled; with no start() in progress, none is scheduled while running *)
(* is false, and one is scheduled while running is true.                   *)
C38_OneTimerPerEngine ==
    /\ Cardinality(timers) <= 1
    /\ (starting = 0 /\ ~running) => timers = {}
    /\ (starting = 0 /\ running) => timers # {}

(* C39: with no failure of the provider or the store, the conversation log *)
(* matches what was dispatched: each campaign has as many outgoing rows of *)
(* a message type (follow-up, reply response, booking email) as emails of  *)
(* that type were handed to the provider for it.                           *)
C39_LogMatchesDispatch ==
    nFaults = 0
       => \A c \in Campaigns, type \in MessageTypes :
             conversations[<<c, type>>] = providerCalls[<<c, type>>]

(* The emails handed to the provider for the campaign so far. *)
Dispatched(c) ==
    FollowUpCalls(c) + providerCalls[<<c, "reply_response">>]
       + providerCalls[<<c, "booking_invitation">>]

(* C40: with the runs of processFollowUpQueue going on and time passing, a *)
(* campaign in status retry_scheduled is eventually sent to or given       *)
(* another status.                                                         *)
C40_RetryIsActedOn ==
    \A c \in Campaigns, n \in 0..MaxDispatch :
       (/\ c \in DOMAIN campaigns
        /\ campaigns[c].status = "retry_scheduled"
        /\ Dispatched(c) = n)
          ~> (/\ c \in DOMAIN campaigns
              /\ (campaigns[c].status # "retry_scheduled" \/ Dispatched(c) > n))
====
